---- MODULE Spec2Model ----
(***************************************************************************)
(* Model of hummingbird's converter API (hummingbird/ml/convert.py) and of *)
(* the ONNX-ML linear-model operator converter                             *)
(* (hummingbird/ml/operator_converters/onnxml_linear.py).                  *)
(*                                                                         *)
(* Python values are modelled as follows.                                  *)
(*   None / a value      : the records None and Some(v)                    *)
(*   a dict              : a function whose DOMAIN is the set of its keys  *)
(*   a list / 1-D array  : a sequence                                      *)
(*   a 2-D array         : a sequence of rows, each row a sequence         *)
(*   a float             : an integer-valued float (an integer)            *)
(* A call of an entry point is one action; what the call did is kept in    *)
(* the variable last, and the objects that outlive a call (the default     *)
(* extra_config dictionaries, created once when the functions are          *)
(* defined) in the variable defaults.                                      *)
(***************************************************************************)
EXTENDS Integers, Sequences, FiniteSets, TLC

VARIABLES defaults, last

vars == <<defaults, last>>

(***************************************************************************)
(* Bounds of the model.                                                    *)
(***************************************************************************)
MaxCoefLen == 6
MaxInterceptLen == 2
MaxClasses == 4

(***************************************************************************)
(* Python's None and a present value.                                      *)
(***************************************************************************)
None == [is |-> FALSE]
Some(v) == [is |-> TRUE, v |-> v]

SeqsUpTo(S, n) == UNION {[1..k -> S] : k \in 0..n}

Range(s) == {s[i] : i \in DOMAIN s}

Abs(v) == IF v < 0 THEN -v ELSE v

RECURSIVE Pow2(_)
Pow2(n) == IF n = 0 THEN 1 ELSE 2 * Pow2(n - 1)

(***************************************************************************)
(* astype("float32") on an integer-valued float: exact below 2^24, and     *)
(* rounded to the nearest representable value (ties to even) above.        *)
(***************************************************************************)
F32Precision == 24

RECURSIVE UlpOf(_, _)
UlpOf(a, u) == IF a < u * Pow2(F32Precision) THEN u ELSE UlpOf(a, 2 * u)

AsFloat32(v) ==
    LET a == Abs(v)
        u == UlpOf(a, 1)
        q == a \div u
        r == a % u
        n == IF 2 * r < u THEN q
             ELSE IF 2 * r > u THEN q + 1
             ELSE IF q % 2 = 0 THEN q ELSE q + 1
    IN  IF v < 0 THEN -(n * u) ELSE n * u

\* np.array(xs).astype("float32") on a flat list
AsFloat32Array(xs) == [i \in DOMAIN xs |-> AsFloat32(xs[i])]

(***************************************************************************)
(* onnxml_linear.py: convert_onnx_linear_model                             *)
(***************************************************************************)

\* An ONNX AttributeProto: unset fields hold the protobuf defaults.
Attr(name, floats, ints, i) == [name |-> name, floats |-> floats, ints |-> ints, i |-> i]

\* State of the attribute loop before its first iteration (line 33).
NoAttributes == [coefficients |-> None, intercepts |-> None, classes |-> None, multi_class |-> None]

\* One iteration of the loop over operator.origin.attribute (lines 37-45).
ReadAttribute(acc, attr) ==
    IF attr.name = "coefficients" THEN [acc EXCEPT !.coefficients = Some(AsFloat32Array(attr.floats))]
    ELSE IF attr.name = "intercepts" THEN [acc EXCEPT !.intercepts = Some(AsFloat32Array(attr.floats))]
    ELSE IF attr.name = "classlabels_ints" THEN [acc EXCEPT !.classes = Some(attr.ints)]
    ELSE IF attr.name = "multi_class"
         THEN IF attr.i # 0 THEN [acc EXCEPT !.multi_class = Some("multinomial")] ELSE acc
    ELSE acc

RECURSIVE ReadAttributes(_, _)
ReadAttributes(acc, attrs) ==
    IF attrs = <<>> THEN acc
    ELSE ReadAttributes(ReadAttribute(acc, Head(attrs)), Tail(attrs))

\* any(v is None for v in [coefficients, intercepts, classes])  (line 47)
AnyNone(p) == ~p.coefficients.is \/ ~p.intercepts.is \/ ~p.classes.is

\* "none" if len(classes) < 3 else "ovr"  (line 51)
InferMultiClassOffByOne(classes) == IF Len(classes) <= 3 THEN "none" ELSE "ovr"

InferMultiClass(classes) == IF Len(classes) < 3 THEN "none" ELSE "ovr"

\* [[val] for val in arr[len(arr) // 2 :]]  (lines 58, 61)
BinaryHalfFirst(arr) ==
    LET h == Len(arr) \div 2
    IN  [i \in 1..h |-> <<AsFloat32(arr[i])>>]

BinaryHalf(arr) ==
    LET h == Len(arr) \div 2
    IN  [i \in 1..(Len(arr) - h) |-> <<AsFloat32(arr[h + i])>>]

\* len(classes) == 2  (line 56)
IsBinary(classes) == Len(classes) = 2

\* len(classes) > 2  (line 64)
IsMulticlassFromOne(classes) == Len(classes) >= 1

IsMulticlass(classes) == Len(classes) > 2

\* Whether arr.reshape(rows, cols) is defined (numpy raises ValueError otherwise).
CanReshape(arr, rows, cols) == rows * cols = Len(arr)

\* arr.reshape(rows, cols): row-major blocks  (line 68)
Reshape(arr, rows, cols) == [r \in 1..rows |-> [c \in 1..cols |-> arr[(r - 1) * cols + c]]]

Min(S) == CHOOSE x \in S : \A y \in S : x <= y

\* np.array(list(zip(*tmp))): tuple k holds the k-th element of every row  (line 70)
UnzipNoTranspose(tmp) == tmp

Unzip(tmp) ==
    LET n == IF tmp = <<>> THEN 0 ELSE Min({Len(tmp[r]) : r \in DOMAIN tmp})
    IN  [k \in 1..n |-> [r \in DOMAIN tmp |-> tmp[r][k]]]

\* LinearModel(coefficients, intercepts, device, classes=, multi_class=, is_linear_regression=)
LinearModel(coefficients, intercepts, device, classes, multi_class, is_linear_regression) ==
    [coefficients |-> coefficients, intercepts |-> intercepts, device |-> device,
     classes |-> classes, multi_class |-> multi_class,
     is_linear_regression |-> is_linear_regression]

Raise(error) == [outcome |-> error, fragment |-> None]

\* The body of convert_onnx_linear_model after the attribute loop (lines 47-75).
BuildLinearModel(raw, p, device) ==
    IF AnyNone(p) THEN Raise("RuntimeError")
    ELSE
      LET coefficients == p.coefficients.v
          intercepts == p.intercepts.v
          classes == p.classes.v
          multi_class == IF p.multi_class.is THEN p.multi_class.v ELSE InferMultiClass(classes)
          is_linear_regression == (raw.op_type = "LinearRegressor")
      IN  IF IsBinary(classes)
          THEN [outcome |-> "ok",
                fragment |-> Some(LinearModel(BinaryHalf(coefficients), BinaryHalf(intercepts), device,
                                              classes, multi_class, is_linear_regression))]
          ELSE IF IsMulticlass(classes)
          THEN LET cols == Len(coefficients) \div Len(classes)
               IN  IF ~CanReshape(coefficients, Len(classes), cols) THEN Raise("ValueError")
                   ELSE [outcome |-> "ok",
                         fragment |-> Some(LinearModel(Unzip(Reshape(coefficients, Len(classes), cols)),
                                                       intercepts, device, classes, multi_class,
                                                       is_linear_regression))]
          ELSE Raise("RuntimeError")

convert_onnx_linear_model(operator, device) ==
    IF ~operator.is THEN Raise("AssertionError")
    ELSE LET raw == operator.v.raw_operator
         IN  BuildLinearModel(raw, ReadAttributes(NoAttributes, raw.origin.attribute), device)

(***************************************************************************)
(* convert.py: the converter API                                           *)
(***************************************************************************)

\* A dict: its keys are its DOMAIN.
EmptyDict == <<>>

HasKey(d, k) == k \in DOMAIN d

\* d[k] = v
SetItem(d, k, v) == [x \in DOMAIN d \cup {k} |-> IF x = k THEN v ELSE d[x]]

\* constants.N_FEATURES, the key of the docstring's extra_config={"n_features":200}
N_FEATURES == "n_features"

\* The functions of convert.py that declare the parameter extra_config={}. The
\* default dictionary of each is one object, created when the function is
\* defined and bound to extra_config in every call that omits the argument.
EntryPoints == {"_to_sklearn", "_to_lightgbm", "_to_xgboost", "convert_sklearn",
                "convert_lightgbm", "convert_xgboost", "convert_onnxml"}

InitialDefaults == [f \in EntryPoints |-> EmptyDict]

\* The dictionaries a call can reach: the default objects and the caller's own.
\* A reference is the name of the function owning a default, or "caller".
Deref(h, ref) == IF ref = "caller" THEN h.caller ELSE h.defaults[ref]

Store(h, ref, d) ==
    IF ref = "caller" THEN [h EXCEPT !.caller = d] ELSE [h EXCEPT !.defaults[ref] = d]

\* What a call did: the dictionaries after it, how it ended, the IR-construction
\* steps it reached, the extra_config contents, output names and test data it
\* handed to the IR converter, and what it returned.
Fail(h, error, steps) ==
    [heap |-> h, outcome |-> error, steps |-> steps, passed |-> None,
     output_names |-> None, test_data |-> None, returned |-> None]

\* supported.backend_map: the recognized backend names
backend_map == {"torch", "pytorch"}

\* str.lower() on the backend names used here
Lower(s) ==
    CASE s = "PyTorch" -> "pytorch"
      [] s = "TORCH" -> "torch"
      [] OTHER -> s

\* not backend.lower() in backend_map  (line 30)
_supported_backend_check(backend) == Lower(backend) \in backend_map

\* parse_sklearn_api_model(model) followed by topology_converter(topology,
\* extra_config=extra_config): either may raise, and the converter receives
\* the extra_config object as it is at that point (lines 88-92).
ParseAndConvert(h, ref, steps, ir) ==
    IF ir = "parse_fails"
    THEN Fail(h, "UnsupportedOperator", steps \o <<"parse_sklearn_api_model">>)
    ELSE IF ir = "convert_fails"
    THEN [Fail(h, "MalformedOperator", steps \o <<"parse_sklearn_api_model", "topology_converter">>)
            EXCEPT !.passed = Some(Deref(h, ref))]
    ELSE [heap |-> h, outcome |-> "ok",
          steps |-> steps \o <<"parse_sklearn_api_model", "topology_converter">>,
          passed |-> Some(Deref(h, ref)), output_names |-> None, test_data |-> None,
          returned |-> Some("hb_model")]

\* convert_sklearn (lines 61-92)
convert_sklearn_CopyFirst(h, model, test_input, ref, env, ir) ==
    IF ~model.is THEN Fail(h, "AssertionError", <<"deepcopy">>)
    ELSE IF ~env.torch THEN Fail(h, "AssertionError", <<"deepcopy">>)
    ELSE ParseAndConvert(h, ref, <<"deepcopy">>, ir)

convert_sklearn(h, model, test_input, ref, env, ir) ==
    IF ~model.is THEN Fail(h, "AssertionError", <<>>)
    ELSE IF ~env.torch THEN Fail(h, "AssertionError", <<>>)
    ELSE ParseAndConvert(h, ref, <<"deepcopy">>, ir)

\* convert_lightgbm (lines 95-115)
convert_lightgbm(h, model, test_input, ref, env, ir) ==
    IF ~env.lightgbm THEN Fail(h, "AssertionError", <<>>)
    ELSE convert_sklearn(h, model, test_input, ref, env, ir)

\* "_features_count" in dir(model)  (line 141)
HasFeaturesCount(model) == model.is /\ model.v._features_count.is

\* type(test_input) is np.ndarray and len(test_input.shape) == 2  (line 144)
Is2DArray(test_input) == test_input.v.type = "ndarray" /\ Len(test_input.v.shape) = 2

\* The feature count when extra_config lacks it (lines 141-156): the value to
\* store, or the error raised.
InferFeaturesFromFirstDimension(model, test_input) ==
    IF HasFeaturesCount(model) THEN [outcome |-> "ok", n |-> model.v._features_count.v]
    ELSE IF test_input.is
    THEN IF Is2DArray(test_input) THEN [outcome |-> "ok", n |-> test_input.v.shape[1]]
         ELSE [outcome |-> "RuntimeError"]
    ELSE [outcome |-> "RuntimeError"]

InferFeatures(model, test_input) ==
    IF HasFeaturesCount(model) THEN [outcome |-> "ok", n |-> model.v._features_count.v]
    ELSE IF test_input.is
    THEN IF Is2DArray(test_input) THEN [outcome |-> "ok", n |-> test_input.v.shape[2]]
         ELSE [outcome |-> "RuntimeError"]
    ELSE [outcome |-> "RuntimeError"]

\* convert_xgboost (lines 118-157)
convert_xgboost(h, model, test_input, ref, env, ir) ==
    IF ~env.xgboost THEN Fail(h, "AssertionError", <<>>)
    ELSE IF ~HasKey(Deref(h, ref), N_FEATURES)
    THEN LET inferred == InferFeatures(model, test_input)
         IN  IF inferred.outcome # "ok" THEN Fail(h, inferred.outcome, <<>>)
             ELSE convert_sklearn(Store(h, ref, SetItem(Deref(h, ref), N_FEATURES, inferred.n)),
                                  model, test_input, ref, env, ir)
    ELSE convert_sklearn(h, model, test_input, ref, env, ir)

\* _to_sklearn, _to_lightgbm, _to_xgboost (lines 34-58)
_to_sklearn(h, model, backend, test_input, ref, env, ir) ==
    IF ~_supported_backend_check(backend) THEN Fail(h, "MissingBackend", <<>>)
    ELSE convert_sklearn(h, model, test_input, ref, env, ir)

_to_lightgbm(h, model, backend, test_input, ref, env, ir) ==
    IF ~_supported_backend_check(backend) THEN Fail(h, "MissingBackend", <<>>)
    ELSE convert_lightgbm(h, model, test_input, ref, env, ir)

_to_xgboost(h, model, backend, test_input, ref, env, ir) ==
    IF ~_supported_backend_check(backend) THEN Fail(h, "MissingBackend", <<>>)
    ELSE convert_xgboost(h, model, test_input, ref, env, ir)

\* input_names if input_names is not None else [in_.name for in_ in model.input]
\* (line 204)
ResolveInputNames(model, input_names) ==
    IF input_names.is THEN input_names.v
    ELSE [i \in DOMAIN model.input |-> model.input[i].name]

\* [in_ for in_ in model.input if in_.name in input_names]  (line 205)
SelectInputs(model, names) ==
    LET Named(in_) == in_.name \in Range(names)
    IN  SelectSeq(model.input, Named)

\* len(inputs) > 0  (line 207)
HasInput(inputs) == Len(inputs) > 0

\* len(inputs) == 1  (line 208)
SingleInputOrMore(inputs) == Len(inputs) >= 1

SingleInput(inputs) == Len(inputs) = 1

\* [] if model.output is None else [o_.name for o_ in model.output]  (lines 213-214)
ResolveOutputNames(model, output_names) ==
    IF output_names.is THEN output_names.v
    ELSE IF ~model.output.is THEN <<>>
    ELSE [i \in DOMAIN model.output.v |-> model.output.v[i].name]

\* The element type of the synthesized data, None when the tensor type is
\* neither FloatTensorType nor Int32TensorType (lines 225-234).
SynthesizedDtypeDefaultFloat(type) ==
    IF type.class = "Int32TensorType" THEN Some("int32") ELSE Some("float32")

SynthesizedDtype(type) ==
    IF type.class = "FloatTensorType" THEN Some("float32")
    ELSE IF type.class = "Int32TensorType" THEN Some("int32")
    ELSE None

\* The test data generated from initial_types[0][1] when test_data is None
\* (lines 216-234). np.random.rand(r, c) is kept as its shape and element type.
SynthesizeTestData(type) ==
    IF ~type.shape.is THEN [outcome |-> "AssertionError"]
    ELSE IF Len(type.shape.v) # 2 THEN [outcome |-> "AssertionError"]
    ELSE IF ~SynthesizedDtype(type).is THEN [outcome |-> "RuntimeError"]
    ELSE [outcome |-> "ok",
          data |-> [shape |-> <<type.shape.v[1], type.shape.v[2]>>,
                    dtype |-> SynthesizedDtype(type).v]]

\* LinkedNode.build_from_onnx(...) followed by linked_node_converter(onnx_ir,
\* inputs, model.initializer, output_names, test_data, extra_config): either
\* may raise (lines 236-242).
BuildAndConvert(h, ref, output_names, test_data, ir) ==
    IF ir = "parse_fails"
    THEN Fail(h, "DanglingReference", <<"build_from_onnx">>)
    ELSE IF ir = "convert_fails"
    THEN [Fail(h, "MalformedOperator", <<"build_from_onnx", "linked_node_converter">>)
            EXCEPT !.passed = Some(Deref(h, ref)), !.output_names = Some(output_names),
                   !.test_data = Some(test_data)]
    ELSE [heap |-> h, outcome |-> "ok",
          steps |-> <<"build_from_onnx", "linked_node_converter">>,
          passed |-> Some(Deref(h, ref)), output_names |-> Some(output_names),
          test_data |-> Some(test_data), returned |-> Some("onnx_model")]

\* convert_onnxml from line 204 on, the model being present.
ConvertOnnxModel(h, model, initial_types, input_names, output_names, test_data, ref, ir) ==
    LET inputs == SelectInputs(model, ResolveInputNames(model, input_names))
        out_names == ResolveOutputNames(model, output_names)
    IN  IF ~HasInput(inputs) THEN Fail(h, "AssertionError", <<>>)
        ELSE IF ~SingleInput(inputs) THEN Fail(h, "AssertionError", <<>>)
        ELSE IF ~(~initial_types.is \/ Len(initial_types.v) = 1) THEN Fail(h, "AssertionError", <<>>)
        ELSE IF test_data.is THEN BuildAndConvert(h, ref, out_names, test_data.v, ir)
        ELSE LET synthesized == SynthesizeTestData(initial_types.v[1][2])
             IN  IF synthesized.outcome # "ok" THEN Fail(h, synthesized.outcome, <<>>)
                 ELSE BuildAndConvert(h, ref, out_names, synthesized.data, ir)

\* convert_onnxml (lines 160-242)
convert_onnxml(h, model, initial_types, input_names, output_names, test_data, ref, env, ir) ==
    IF ~model.is THEN Fail(h, "AssertionError", <<>>)
    ELSE IF ~env.torch THEN Fail(h, "AssertionError", <<>>)
    ELSE IF ~env.onnx THEN Fail(h, "AssertionError", <<>>)
    ELSE IF ~(test_data.is \/ initial_types.is) THEN Fail(h, "AssertionError", <<>>)
    ELSE ConvertOnnxModel(h, model.v, initial_types, input_names, output_names, test_data, ref, ir)

(***************************************************************************)
(* A call of the converter API, as a record of its arguments, of which     *)
(* runtimes are installed (env) and of whether the IR construction and the *)
(* operator conversion behind the entry point succeed (ir).                *)
(***************************************************************************)

\* The dictionary extra_config is bound to: the caller's, or the default of the
\* function called when the caller omits the argument.
ConfigRef(c) == IF c.extra_config.is THEN "caller" ELSE c.call

HeapAtCall(d, c) ==
    [defaults |-> d, caller |-> IF c.extra_config.is THEN c.extra_config.v ELSE EmptyDict]

RunCall(d, c) ==
    CASE c.call = "convert_sklearn" ->
           convert_sklearn(HeapAtCall(d, c), c.model, c.test_input, ConfigRef(c), c.env, c.ir)
      [] c.call = "convert_lightgbm" ->
           convert_lightgbm(HeapAtCall(d, c), c.model, c.test_input, ConfigRef(c), c.env, c.ir)
      [] c.call = "convert_xgboost" ->
           convert_xgboost(HeapAtCall(d, c), c.model, c.test_input, ConfigRef(c), c.env, c.ir)
      [] c.call = "_to_sklearn" ->
           _to_sklearn(HeapAtCall(d, c), c.model, c.backend, c.test_input, ConfigRef(c), c.env, c.ir)
      [] c.call = "_to_lightgbm" ->
           _to_lightgbm(HeapAtCall(d, c), c.model, c.backend, c.test_input, ConfigRef(c), c.env, c.ir)
      [] c.call = "_to_xgboost" ->
           _to_xgboost(HeapAtCall(d, c), c.model, c.backend, c.test_input, ConfigRef(c), c.env, c.ir)
      [] c.call = "convert_onnxml" ->
           convert_onnxml(HeapAtCall(d, c), c.model, c.initial_types, c.input_names,
                          c.output_names, c.test_data, ConfigRef(c), c.env, c.ir)

\* What the caller can observe of the call c made with the default dictionaries d.
Observed(d, c) ==
    LET r == RunCall(d, c)
    IN  [config_before |-> Deref(HeapAtCall(d, c), ConfigRef(c)),
         config_after |-> Deref(r.heap, ConfigRef(c)),
         outcome |-> r.outcome, steps |-> r.steps, passed |-> r.passed,
         used_output_names |-> r.output_names, used_test_data |-> r.test_data,
         returned |-> r.returned]

(***************************************************************************)
(* The nodes the converter is applied to.                                  *)
(***************************************************************************)
Floats == {-1, 2}
CoefficientInputs == {None} \cup {Some(s) : s \in SeqsUpTo(Floats, MaxCoefLen)}
InterceptInputs == {None} \cup {Some(s) : s \in SeqsUpTo(Floats, MaxInterceptLen)}
ClassInputs == {None} \cup {Some([i \in 1..n |-> i - 1]) : n \in 0..MaxClasses}
MultiClassInputs == {None, Some(0), Some(1)}
OpTypes == {"LinearClassifier", "LinearRegressor"}
Devices == {None, Some("cpu")}

OptAttr(name, opt, floats, ints, i) == IF opt.is THEN <<Attr(name, floats, ints, i)>> ELSE <<>>

\* A node whose attribute list holds the given attributes (and post_transform).
Operator(op_type, coefs, ints, cls, mc) ==
    [raw_operator |->
       [op_type |-> op_type,
        origin |-> [attribute |->
            OptAttr("classlabels_ints", cls, <<>>, IF cls.is THEN cls.v ELSE <<>>, 0)
         \o OptAttr("coefficients", coefs, IF coefs.is THEN coefs.v ELSE <<>>, <<>>, 0)
         \o OptAttr("intercepts", ints, IF ints.is THEN ints.v ELSE <<>>, <<>>, 0)
         \o OptAttr("multi_class", mc, <<>>, <<>>, IF mc.is THEN mc.v ELSE 0)
         \o <<Attr("post_transform", <<>>, <<>>, 0)>>]]]

NoCall == [call |-> "none"]

(***************************************************************************)
(* The calls made to the converter API.                                    *)
(***************************************************************************)
MaxFeatures == 2

FeatureCounts == 1..MaxFeatures

\* A key of the caller's that convert.py does not read.
CallerKey == "tree_implementation"

\* extra_config: omitted, or a dictionary of the caller's
ConfigInputs ==
    {None, Some(EmptyDict), Some(SetItem(EmptyDict, CallerKey, "gemm"))}
    \cup {Some(SetItem(EmptyDict, N_FEATURES, n)) : n \in FeatureCounts}

\* model: None, an estimator without _features_count, or one that reports it
ModelInputs ==
    {None, Some([_features_count |-> None])}
    \cup {Some([_features_count |-> Some(n)]) : n \in FeatureCounts}

\* test_input: None, a nested list, or an ndarray of rank 1, 2 or 3
ArrayShapes ==
    {<<n>> : n \in FeatureCounts}
    \cup {<<r, n>> : r \in FeatureCounts, n \in FeatureCounts}
    \cup {<<1, 1, 1>>}

TestInputs ==
    {None, Some([type |-> "list", shape |-> <<1, 1>>])}
    \cup {Some([type |-> "ndarray", shape |-> sh]) : sh \in ArrayShapes}

\* test_input for the entry points that do not read it
UnusedTestInputs == {None, Some([type |-> "ndarray", shape |-> <<1, 1>>])}

Backends == {"torch", "PyTorch", "tvm"}

IrOutcomes == {"ok", "parse_fails", "convert_fails"}

Env(torch, lightgbm, xgboost, onnx) ==
    [torch |-> torch, lightgbm |-> lightgbm, xgboost |-> xgboost, onnx |-> onnx]

SklearnEnvs == {Env(t, TRUE, TRUE, TRUE) : t \in BOOLEAN}
LightgbmEnvs == {Env(t, l, TRUE, TRUE) : t \in BOOLEAN, l \in BOOLEAN}
XgboostEnvs == {Env(t, TRUE, x, TRUE) : t \in BOOLEAN, x \in BOOLEAN}
OnnxEnvs == {Env(t, TRUE, TRUE, o) : t \in BOOLEAN, o \in BOOLEAN}

EstimatorCalls(name, inputs, envs) ==
    [call : {name}, model : ModelInputs, test_input : inputs,
     extra_config : ConfigInputs, env : envs, ir : IrOutcomes]

WrapperCalls(name, inputs, envs) ==
    [call : {name}, model : ModelInputs, backend : Backends, test_input : inputs,
     extra_config : ConfigInputs, env : envs, ir : IrOutcomes]

\* ONNX-ML models: None, or a graph with 1 or 2 declared inputs
OnnxModelInputs ==
    {None} \cup {Some([input |-> ins, output |-> outs]) :
                    ins \in {<<[name |-> "a"]>>, <<[name |-> "a"], [name |-> "b"]>>},
                    outs \in {None, Some(<<[name |-> "y"]>>)}}

InputNameInputs == {None, Some(<<"a">>), Some(<<"a", "b">>), Some(<<"z">>)}

OutputNameInputs == {None, Some(<<"y">>)}

TensorClasses == {"FloatTensorType", "Int32TensorType", "Int64TensorType"}

TensorShapes == {None, Some(<<2>>), Some(<<1, 2>>), Some(<<1, 1, 1>>)}

TensorTypes == [class : TensorClasses, shape : TensorShapes]

InitialTypeInputs ==
    {None, Some(<<>>)}
    \cup {Some(<< <<"a", t>> >>) : t \in TensorTypes}
    \cup {Some(<< <<"a", t>>, <<"b", t>> >>) : t \in {[class |-> "FloatTensorType", shape |-> Some(<<1, 2>>)]}}

TestDataInputs == {None, Some([shape |-> <<2, 2>>, dtype |-> "float64"])}

OnnxConfigInputs == {None, Some(SetItem(EmptyDict, CallerKey, "gemm"))}

OnnxCalls ==
    [call : {"convert_onnxml"}, model : OnnxModelInputs, initial_types : InitialTypeInputs,
     input_names : InputNameInputs, output_names : OutputNameInputs,
     test_data : TestDataInputs, extra_config : OnnxConfigInputs, env : OnnxEnvs,
     ir : IrOutcomes]

Init ==
    /\ defaults = InitialDefaults
    /\ last = NoCall

\* The call c is made and runs to its end: the caller sees c and what it did,
\* and the default dictionaries keep what the call stored in them.
Call(c) ==
    /\ last' = c @@ Observed(defaults, c)
    /\ defaults' = RunCall(defaults, c).heap.defaults

ConvertSklearn ==
    /\ last = NoCall
    /\ \E c \in EstimatorCalls("convert_sklearn", UnusedTestInputs, SklearnEnvs) : Call(c)

ConvertLightgbm ==
    /\ last = NoCall
    /\ \E c \in EstimatorCalls("convert_lightgbm", UnusedTestInputs, LightgbmEnvs) : Call(c)

ConvertXgboost ==
    /\ last = NoCall
    /\ \E c \in EstimatorCalls("convert_xgboost", TestInputs, XgboostEnvs) : Call(c)

ToSklearn ==
    /\ last = NoCall
    /\ \E c \in WrapperCalls("_to_sklearn", UnusedTestInputs, SklearnEnvs) : Call(c)

ToLightgbm ==
    /\ last = NoCall
    /\ \E c \in WrapperCalls("_to_lightgbm", UnusedTestInputs, LightgbmEnvs) : Call(c)

ToXgboost ==
    /\ last = NoCall
    /\ \E c \in WrapperCalls("_to_xgboost", TestInputs, XgboostEnvs) : Call(c)

ConvertOnnxml ==
    /\ last = NoCall
    /\ \E c \in OnnxCalls : Call(c)

\* The caller drops the result of the last call before it makes the next.
Return ==
    /\ last # NoCall
    /\ last' = NoCall
    /\ UNCHANGED defaults

ConvertLinear ==
    /\ last = NoCall
    /\ \E op_type \in OpTypes, coefs \in CoefficientInputs, ints \in InterceptInputs,
       cls \in ClassInputs, mc \in MultiClassInputs, device \in Devices :
        last' = [call |-> "convert_onnx_linear_model",
                 coefficients |-> coefs, intercepts |-> ints, classes |-> cls,
                 multi_class |-> mc, op_type |-> op_type, device |-> device,
                 result |-> convert_onnx_linear_model(Some(Operator(op_type, coefs, ints, cls, mc)), device)]
    /\ UNCHANGED defaults

ConvertLinearNoOperator ==
    /\ last = NoCall
    /\ last' = [call |-> "convert_onnx_linear_model_none",
                result |-> convert_onnx_linear_model(None, None)]
    /\ UNCHANGED defaults

NextLinear == ConvertLinear \/ ConvertLinearNoOperator \/ Return

SpecLinear == Init /\ [][NextLinear]_vars

Next ==
    \/ ConvertSklearn
    \/ ConvertLightgbm
    \/ ConvertXgboost
    \/ ToSklearn
    \/ ToLightgbm
    \/ ToXgboost
    \/ ConvertOnnxml
    \/ Return

Spec == Init /\ [][Next]_vars

(***************************************************************************)
(* Properties of convert_onnx_linear_model.                                *)
(***************************************************************************)

\* The last call converted a node that carries all three required attributes.
LinearCallComplete ==
    /\ last.call = "convert_onnx_linear_model"
    /\ last.coefficients.is /\ last.intercepts.is /\ last.classes.is

\* t is the second half of the flat array arr, one single-element row per value.
IsSecondHalfRows(t, arr) ==
    LET k == Len(arr) \div 2
    IN  /\ Len(t) = k
        /\ \A i \in 1..k : t[i] = <<arr[k + i]>>

\* C1: binary case. For a node with exactly 2 class labels and flat
\* coefficient and intercept arrays of even length 2k, the fragment's
\* coefficient tensor is the second half [k:2k] of the input coefficients, one
\* single-element row per value (shape (k,1)), and its intercept tensor is
\* likewise the second half of the input intercepts; the first half is dropped.
C1_BinaryKeepsSecondHalf ==
    (/\ LinearCallComplete
     /\ Len(last.classes.v) = 2
     /\ Len(last.coefficients.v) % 2 = 0
     /\ Len(last.intercepts.v) % 2 = 0)
    => /\ last.result.outcome = "ok"
       /\ last.result.fragment.is
       /\ IsSecondHalfRows(last.result.fragment.v.coefficients, last.coefficients.v)
       /\ IsSecondHalfRows(last.result.fragment.v.intercepts, last.intercepts.v)

\* A binary node with coefficients [2,2,-1,-1] and intercepts [2,-1] was
\* converted to coefficients [[-1],[-1]] and intercepts [[-1]].
C1_Witness ==
    /\ LinearCallComplete
    /\ last.classes.v = <<0, 1>>
    /\ last.coefficients.v = <<2, 2, -1, -1>>
    /\ last.intercepts.v = <<2, -1>>
    /\ last.result.fragment.is
    /\ last.result.fragment.v.coefficients = << <<-1>>, <<-1>> >>
    /\ last.result.fragment.v.intercepts = << <<-1>> >>

\* C2: multiclass case. For a node with c > 2 class labels and a flat
\* coefficient array of length c*m, the fragment's coefficient tensor has m
\* rows of c columns and its column j holds input coefficients
\* [j*m : (j+1)*m], for every j in 0..c-1; the intercepts are passed to the
\* fragment unchanged.
C2_MulticlassColumnsAreClassBlocks ==
    (/\ LinearCallComplete
     /\ Len(last.classes.v) > 2
     /\ Len(last.coefficients.v) % Len(last.classes.v) = 0)
    => LET c == Len(last.classes.v)
           m == Len(last.coefficients.v) \div c
       IN  /\ last.result.outcome = "ok"
           /\ last.result.fragment.is
           /\ Len(last.result.fragment.v.coefficients) = m
           /\ \A i \in 1..m :
                 /\ Len(last.result.fragment.v.coefficients[i]) = c
                 /\ \A j \in 0..(c - 1) :
                       last.result.fragment.v.coefficients[i][j + 1] = last.coefficients.v[j * m + i]
           /\ last.result.fragment.v.intercepts = last.intercepts.v

\* A 3-class node with coefficients [2,-1, -1,-1, 2,2] (m = 2) was converted
\* to the 2x3 tensor [[2,-1,2],[-1,-1,2]].
C2_Witness ==
    /\ LinearCallComplete
    /\ Len(last.classes.v) = 3
    /\ last.coefficients.v = <<2, -1, -1, -1, 2, 2>>
    /\ last.intercepts.v = <<2, -1>>
    /\ last.result.fragment.is
    /\ last.result.fragment.v.coefficients = << <<2, -1, 2>>, <<-1, -1, 2>> >>
    /\ last.result.fragment.v.intercepts = <<2, -1>>

\* C3: the multi-class mode of every fragment the converter returns is
\* "multinomial" when the node carries a multi_class attribute with a non-zero
\* value, whatever the class count; otherwise (attribute absent, or present
\* with value 0) it is "none" when len(classes) < 3 and "ovr" when
\* len(classes) >= 3.
C3_MultiClassMode ==
    (last.call = "convert_onnx_linear_model" /\ last.result.fragment.is)
    => last.result.fragment.v.multi_class =
         IF last.multi_class.is /\ last.multi_class.v # 0 THEN "multinomial"
         ELSE IF Len(last.classes.v) < 3 THEN "none"
         ELSE "ovr"

\* A fragment was returned for a 3-class node whose multi_class attribute is
\* present with value 0, and its mode is "ovr".
C3_Witness ==
    /\ LinearCallComplete
    /\ Len(last.classes.v) = 3
    /\ last.multi_class = Some(0)
    /\ last.result.fragment.is
    /\ last.result.fragment.v.multi_class = "ovr"

\* The node of the last call lacks a required attribute or has fewer than 2
\* class labels.
LinearMalformed ==
    \/ ~last.coefficients.is
    \/ ~last.intercepts.is
    \/ ~last.classes.is
    \/ Len(last.classes.v) < 2

LinearFailedWith(error) ==
    /\ last.result.outcome = error
    /\ ~last.result.fragment.is

\* C4 as stated: the converter fails with RuntimeError and returns no fragment
\* whenever coefficients, intercepts or classlabels_ints is absent, and whenever
\* all three are present but there are fewer than 2 class labels; in every
\* other case it returns a fragment.
C4_AsStated ==
    last.call = "convert_onnx_linear_model"
    => IF LinearMalformed THEN LinearFailedWith("RuntimeError")
       ELSE last.result.outcome = "ok" /\ last.result.fragment.is

\* C4 as amended: as above, except that a node with more than 2 class labels
\* whose coefficient count is not a multiple of the class count is not
\* converted either: the reshape fails with ValueError and no fragment is
\* returned. In every remaining case the fragment is built and returned.
C4_MalformedOperator ==
    last.call = "convert_onnx_linear_model"
    => IF LinearMalformed THEN LinearFailedWith("RuntimeError")
       ELSE IF /\ Len(last.classes.v) > 2
               /\ Len(last.coefficients.v) % Len(last.classes.v) # 0
            THEN LinearFailedWith("ValueError")
       ELSE last.result.outcome = "ok" /\ last.result.fragment.is

\* A node with coefficients and intercepts but a single class label was
\* rejected with RuntimeError.
C4_Witness ==
    /\ LinearCallComplete
    /\ Len(last.classes.v) = 1
    /\ Len(last.coefficients.v) = 2
    /\ LinearFailedWith("RuntimeError")

(***************************************************************************)
(* Properties of the converter API.                                        *)
(***************************************************************************)

\* The call left no trace of IR construction and returned nothing.
NothingBuilt ==
    /\ last.steps = <<>>
    /\ ~last.passed.is
    /\ ~last.returned.is

\* The call ended with n as the feature count in extra_config, without the
\* feature-count error, and handed n on if it reached the IR converter.
ResolvedTo(n) ==
    /\ HasKey(last.config_after, N_FEATURES)
    /\ last.config_after[N_FEATURES] = n
    /\ last.outcome # "RuntimeError"
    /\ last.passed.is => last.passed.v[N_FEATURES] = n

TestInputIs2DArray ==
    /\ last.test_input.is
    /\ last.test_input.v.type = "ndarray"
    /\ Len(last.test_input.v.shape) = 2

\* C5: convert_xgboost, XGBoost being installed. An n_features already in
\* extra_config is kept; otherwise the model's self-reported _features_count
\* is used; otherwise the second dimension of a 2-D ndarray test_input; and
\* with none of these (no test_input, or one that is not a 2-D array) the call
\* fails with the feature-count error (RuntimeError) before any conversion is
\* attempted.
C5_FeatureCountResolution ==
    (last.call = "convert_xgboost" /\ last.env.xgboost)
    => IF HasKey(last.config_before, N_FEATURES)
       THEN last.config_after = last.config_before /\ last.outcome # "RuntimeError"
       ELSE IF last.model.is /\ last.model.v._features_count.is
       THEN ResolvedTo(last.model.v._features_count.v)
       ELSE IF TestInputIs2DArray
       THEN ResolvedTo(last.test_input.v.shape[2])
       ELSE /\ last.outcome = "RuntimeError"
            /\ NothingBuilt
            /\ ~HasKey(last.config_after, N_FEATURES)

\* convert_xgboost, given an empty extra_config, a model without
\* _features_count and a test_input of shape (1, 2), converted the model with
\* n_features = 2.
C5_Witness ==
    /\ last.call = "convert_xgboost"
    /\ last.extra_config = Some(EmptyDict)
    /\ last.model = Some([_features_count |-> None])
    /\ last.test_input = Some([type |-> "ndarray", shape |-> <<1, 2>>])
    /\ last.outcome = "ok"
    /\ last.passed.v[N_FEATURES] = 2

\* The declared inputs of the model whose name is in input_names (all of them
\* when input_names is omitted), as positions in model.input.
ResolvedInputs ==
    {i \in DOMAIN last.model.v.input :
        last.input_names.is => last.model.v.input[i].name \in Range(last.input_names.v)}

\* The checks of convert_onnxml that precede the input resolution pass.
OnnxModelAccepted ==
    /\ last.model.is
    /\ last.env.torch
    /\ last.env.onnx
    /\ last.test_data.is \/ last.initial_types.is

IrBuilt == "build_from_onnx" \in Range(last.steps)

\* C6: convert_onnxml requires exactly one resolved input. When the resolved
\* input set is empty or has 2 or more elements the call fails (AssertionError)
\* without building the IR; the IR is built only when the set has exactly one
\* element, and then it is built if the test data is given.
C6_ExactlyOneInput ==
    last.call = "convert_onnxml"
    => /\ (last.model.is /\ Cardinality(ResolvedInputs) # 1)
            => (last.outcome = "AssertionError" /\ NothingBuilt)
       /\ IrBuilt => Cardinality(ResolvedInputs) = 1
       /\ (/\ OnnxModelAccepted
           /\ Cardinality(ResolvedInputs) = 1
           /\ last.test_data.is
           /\ last.initial_types.is => Len(last.initial_types.v) = 1)
            => IrBuilt

\* convert_onnxml, with its runtimes installed and test data given, rejected a
\* model whose two declared inputs both resolve.
C6_Witness ==
    /\ last.call = "convert_onnxml"
    /\ OnnxModelAccepted
    /\ last.test_data.is
    /\ ~last.initial_types.is
    /\ Cardinality(ResolvedInputs) = 2
    /\ last.outcome = "AssertionError"
    /\ NothingBuilt

OnnxFailedEarly ==
    /\ last.outcome \in {"AssertionError", "RuntimeError"}
    /\ NothingBuilt

SynthesizableClasses == {"FloatTensorType", "Int32TensorType"}

\* C7: convert_onnxml's test data. The call fails if test_data and
\* initial_types are both absent. With test_data absent it fails if the single
\* initial type has no shape, a shape of rank other than 2, or an element type
\* that is neither float32 nor int32; with a float32 or int32 type of 2-D shape
\* (r, c), test data of shape (r, c) and that element type is synthesized and
\* handed to the converter. A test_data that is supplied is used as given, and
\* no shape or element-type check fails the call.
C7_TestData ==
    last.call = "convert_onnxml"
    => /\ (~last.test_data.is /\ ~last.initial_types.is) => OnnxFailedEarly
       /\ (~last.test_data.is /\ last.initial_types.is /\ Len(last.initial_types.v) = 1)
            => LET type == last.initial_types.v[1][2]
                   synthesizable ==
                       /\ type.shape.is
                       /\ Len(type.shape.v) = 2
                       /\ type.class \in SynthesizableClasses
               IN  /\ ~synthesizable => OnnxFailedEarly
                   /\ (synthesizable /\ OnnxModelAccepted /\ Cardinality(ResolvedInputs) = 1)
                        => /\ IrBuilt
                           /\ last.used_test_data.is
                                => last.used_test_data.v =
                                     [shape |-> type.shape.v,
                                      dtype |-> IF type.class = "FloatTensorType"
                                                THEN "float32" ELSE "int32"]
       /\ last.test_data.is
            => /\ last.used_test_data.is => last.used_test_data = last.test_data
               /\ last.outcome # "RuntimeError"
               /\ (/\ OnnxModelAccepted
                   /\ Cardinality(ResolvedInputs) = 1
                   /\ last.initial_types.is => Len(last.initial_types.v) = 1)
                    => IrBuilt

\* convert_onnxml, without test_data and with an Int32TensorType of shape
\* (1, 2), converted the model with synthesized int32 data of shape (1, 2).
C7_Witness ==
    /\ last.call = "convert_onnxml"
    /\ ~last.test_data.is
    /\ last.initial_types = Some(<< <<"a", [class |-> "Int32TensorType", shape |-> Some(<<1, 2>>)]>> >>)
    /\ last.outcome = "ok"
    /\ last.used_test_data = Some([shape |-> <<1, 2>>, dtype |-> "int32"])

ConverterCalls == {"convert_sklearn", "convert_lightgbm", "convert_xgboost", "convert_onnxml"}

\* C8 as stated: in every call of convert_sklearn, convert_lightgbm,
\* convert_xgboost and convert_onnxml the extra_config handed to the IR
\* converter has exactly the keys and values the caller passed in (none when
\* the argument is omitted), and the caller's mapping has the same contents
\* after the call, successful or failed, as before it.
C8_AsStated ==
    last.call \in ConverterCalls
    => /\ last.passed.is
            => last.passed.v = IF last.extra_config.is THEN last.extra_config.v ELSE EmptyDict
       /\ last.extra_config.is => last.config_after = last.extra_config.v

\* The feature count a call handed to the IR converter, if it handed one.
FeaturesOf(o) ==
    IF o.passed.is /\ HasKey(o.passed.v, N_FEATURES) THEN Some(o.passed.v[N_FEATURES]) ELSE None

\* C9 as stated: nothing is shared across calls. The outcome of a call and the
\* n_features it resolves are those of the same call made first, with the
\* default dictionaries as created; in particular convert_xgboost with
\* extra_config omitted, XGBoost installed, a model that does not report a
\* feature count and no test_input fails with the feature-count error whatever
\* calls preceded it.
C9_AsStated ==
    last.call \in EntryPoints
    => /\ last.outcome = Observed(InitialDefaults, last).outcome
       /\ FeaturesOf(last) = FeaturesOf(Observed(InitialDefaults, last))
       /\ (/\ last.call = "convert_xgboost"
           /\ ~last.extra_config.is
           /\ last.env.xgboost
           /\ ~(last.model.is /\ last.model.v._features_count.is)
           /\ ~last.test_input.is)
            => last.outcome = "RuntimeError"

\* The runtimes an entry point asserts to be installed.
RuntimeMissing ==
    \/ ~last.env.torch
    \/ last.call \in {"convert_lightgbm", "_to_lightgbm"} /\ ~last.env.lightgbm
    \/ last.call \in {"convert_xgboost", "_to_xgboost"} /\ ~last.env.xgboost
    \/ last.call = "convert_onnxml" /\ ~last.env.onnx

BackendUnrecognized ==
    /\ last.call \in {"_to_sklearn", "_to_lightgbm", "_to_xgboost"}
    /\ Lower(last.backend) \notin backend_map

\* convert_xgboost has no n_features, no self-reported count and no 2-D array.
FeatureCountMissing ==
    /\ last.call \in {"convert_xgboost", "_to_xgboost"}
    /\ ~HasKey(last.config_before, N_FEATURES)
    /\ ~(last.model.is /\ last.model.v._features_count.is)
    /\ ~TestInputIs2DArray

\* convert_onnxml has neither test data nor a 2-D shape to synthesize it from.
ShapeMissing ==
    /\ last.call = "convert_onnxml"
    /\ ~last.test_data.is
    /\ \/ ~last.initial_types.is
       \/ /\ Len(last.initial_types.v) = 1
          /\ \/ ~last.initial_types.v[1][2].shape.is
             \/ Len(last.initial_types.v[1][2].shape.v) # 2

IrConstructionSteps == {"deepcopy", "parse_sklearn_api_model", "build_from_onnx"}

\* C10: preconditions are checked before any IR construction. In a call of any
\* entry point or _to_* wrapper, if the model is None, a required runtime is
\* not installed, the backend is unrecognized, or the feature count or shape
\* information is missing, the call fails before the model is deep-copied and
\* parsed or the linked-node IR is built, and returns no target model.
C10_PreconditionsFirst ==
    (/\ last.call \in EntryPoints
     /\ \/ ~last.model.is
        \/ RuntimeMissing
        \/ BackendUnrecognized
        \/ FeatureCountMissing
        \/ ShapeMissing)
    => /\ last.outcome # "ok"
       /\ Range(last.steps) \cap IrConstructionSteps = {}
       /\ NothingBuilt

\* convert_sklearn was called with a model but without torch installed, and
\* failed on the assertion with nothing copied or parsed.
C10_Witness ==
    /\ last.call = "convert_sklearn"
    /\ last.model.is
    /\ ~last.env.torch
    /\ last.outcome = "AssertionError"
    /\ NothingBuilt

====
